---- MODULE Spec2Model ----
(***************************************************************************)
(* Model of the OperatorOSRealTime client (static/js/realtime.js): the     *)
(* WebSocket lifecycle, the backoff reconnection, the heartbeat and        *)
(* polling interval timers, the update coalescing queue and teardown.      *)
(*                                                                         *)
(* Every handler runs to completion on the single event loop, so each      *)
(* handler is one action.  Timers are modelled by what is pending: an      *)
(* interval timer whose handle was overwritten without clearInterval       *)
(* keeps firing and is counted as "leaked".                                *)
(*                                                                         *)
(* Several specifications share the actions.  Spec drives the handlers    *)
(* that read or write the connection state (sockets, counters, interval    *)
(* and reconnect timers).  SpecQueue drives the update queue: direct       *)
(* enqueues, the polling callback, the flush timer and teardown.  The      *)
(* queue handlers never write connection state and the connection handlers *)
(* never write the queue, cleanup() excepted, which is in both.            *)
(* SpecEmitter drives on / off / emit, SpecStore the notification store,   *)
(* and SpecDispatch the inbound frames and the polling responses with      *)
(* subscribers registered.                                                 *)
(***************************************************************************)
EXTENDS Integers, Sequences, FiniteSets, TLC

\* ---- bounds of the model ------------------------------------------------
MaxSockets == 2            \* sockets alive at once (not yet closed for good)
MaxTimers == 2             \* reconnect timeouts pending at once
MaxLeaked == 1             \* interval timers of one kind without a handle
MaxQueue == 3              \* length of the update queue
MaxInFlight == 1           \* polling requests awaiting their response
maxReconnectAttempts == 2  \* options.maxReconnectAttempts (10 by default)
MaxListeners == 3          \* callbacks registered at once, all events together
MaxStoreCalls == 52        \* notifications ever stored by direct calls
MaxFrameNotifications == 2 \* notifications ever stored by inbound frames
MaxClock == 2              \* the latest reading of the clock (it starts at 0)

\* ---- config of the dashboard (constructor, dashboard.js:15-21) ------------
maxRetries == 3            \* config.maxRetries
retryDelay == 1000         \* config.retryDelay

\* ---- options of the client (constructor, realtime.js:8-14) ---------------
reconnectInterval == 5000  \* options.reconnectInterval

\* storeNotification keeps the first 50 entries (realtime.js:497-498)
NotificationCap == 50

\* the functions handed to queueUpdate: two that return, one that throws and
\* one that calls queueUpdate(u1) and returns
UpdateFns == {"u1", "u2", "boom", "nest"}

Throws(fn) == fn = "boom"

VARIABLES
    sockets,            \* the WebSocket objects created by connect() that can
                        \* still raise an event or be closed by a timeout
    websocket,          \* this.websocket: NoSocket, an index of sockets, or
                        \* ClosedSocket
    isConnected,        \* this.isConnected
    reconnectAttempts,  \* this.reconnectAttempts
    heartbeatTimer,     \* this.heartbeatTimer is a live interval handle
    leakedHeartbeats,   \* active heartbeat intervals no handle refers to
    pollingInterval,    \* this.pollingInterval is a live interval handle
    leakedPolls,        \* active polling intervals no handle refers to
    reconnectTimers,    \* number of pending reconnect timeouts
    updateQueue,        \* this.updateQueue
    updateTimer,        \* this.updateTimer is truthy
    flushTimers,        \* pending setTimeout(processUpdateQueue) timers
    pollsInFlight,      \* fetch('/admin/api/metrics') calls not yet answered
    listeners,          \* this.listeners: the callbacks registered per event
    notifications,      \* localStorage['operatorOS_notifications'], parsed
    notified,           \* number of notifications ever stored; it numbers them
    notificationCount,  \* the text of the #notification-count element
    lastHeartbeat,      \* this.lastHeartbeat
    clock,              \* what Date.now() returns
    fetchPhase,         \* where the running fetchWithRetry call of the
                        \* dashboard stands, or how the last one ended
    retries,            \* the retries argument of its innermost invocation
    fetchLog,           \* history: the requests it issued, the outcomes of
                        \* their fetch and the delays it waited, in order
    cleaned,            \* history: cleanup() has run
    lastOp,             \* history: the method of the client that ran last
                        \* (an event whose handler calls nothing leaves the
                        \* history as it is)
    lastResult,         \* history: what that method returned or did; for
                        \* handleWebSocketClose <<event.code, the counter
                        \* before>>, followed by the delay given to
                        \* setTimeout when it scheduled a reconnect
    lastInvoked,        \* history: the functions that handler invoked from
                        \* the update queue
    delivered           \* history: the <<event, callback, data>> calls that
                        \* handler made to subscribers, in order

vars == <<sockets, websocket, isConnected, reconnectAttempts, heartbeatTimer,
          leakedHeartbeats, pollingInterval, leakedPolls, reconnectTimers,
          updateQueue, updateTimer, flushTimers, pollsInFlight, listeners,
          notifications, notified, notificationCount, lastHeartbeat, clock,
          fetchPhase, retries, fetchLog, cleaned, lastOp, lastResult,
          lastInvoked, delivered>>

\* the state of the client object, of its timers, of the page and of the
\* clock it reads (no history variables)
clientVars == <<sockets, websocket, isConnected, reconnectAttempts,
                heartbeatTimer, leakedHeartbeats, pollingInterval,
                leakedPolls, reconnectTimers, updateQueue, updateTimer,
                flushTimers, pollsInFlight, listeners, notifications,
                notified, notificationCount, lastHeartbeat, clock>>

queueVars == <<updateQueue, updateTimer, flushTimers>>

\* the subscriber registry and the notification store
dispatchVars == <<listeners, notifications, notified, notificationCount>>

\* the heartbeat record and the clock
heartbeatVars == <<lastHeartbeat, clock>>

\* the connection state: sockets, flags, counters and their timers
connectionVars == <<sockets, websocket, isConnected, reconnectAttempts,
                    heartbeatTimer, leakedHeartbeats, pollingInterval,
                    leakedPolls, reconnectTimers>>

historyVars == <<lastOp, lastResult, lastInvoked, delivered>>

\* the fetchWithRetry call of the dashboard
fetchVars == <<fetchPhase, retries, fetchLog>>

SockIds == 1..Len(sockets)

\* ---- sockets ---------------------------------------------------------------
\* this.websocket === null
NoSocket == 0

\* this.websocket is a socket that is CLOSED and whose connect() timeout has
\* run: no event of it is left, only its readyState can be read
ClosedSocket == -1

\* new WebSocket(wsUrl) with its four handlers, and the 5 s timeout armed.
\* state is the readyState, CLOSING being split in two: "closing" (close()
\* on an open socket: the closing handshake runs) and "failing" (close() on
\* a connecting socket: the connection is being failed).
\* caught: the caller of connect() attached a rejection handler to the
\* promise it returned.
NewSocket(caught) == [state |-> "connecting", promise |-> "pending",
                      timeout |-> "armed", caught |-> caught]

\* readyState of the socket w refers to
ReadyState(socks, w) == IF w = ClosedSocket THEN "closed" ELSE socks[w].state

\* a socket that raises no further event
Dead(r) == r.state = "closed" /\ r.timeout = "fired"

\* the sockets that are kept, in creation order
Live(socks) == SelectSeq(socks, LAMBDA r : ~Dead(r))

\* the reference w after the dead sockets of socks are dropped
Reindex(socks, w) ==
    IF w <= 0 THEN w
    ELSE IF Dead(socks[w]) THEN ClosedSocket
    ELSE Cardinality({j \in 1..w : ~Dead(socks[j])})

\* WebSocket.close() on socket s: only a connecting or open socket changes
CloseSocket(socks, s) ==
    IF s > 0 /\ socks[s].state = "open"
    THEN [socks EXCEPT ![s].state = "closing"]
    ELSE IF s > 0 /\ socks[s].state = "connecting"
    THEN [socks EXCEPT ![s].state = "failing"]
    ELSE socks

\* reject(...) / resolve() settle a promise once
Settle(p, how) == IF p = "pending" THEN how ELSE p

\* ---- helpers ---------------------------------------------------------------
RECURSIVE Pow(_, _)
Pow(b, e) == IF e = 0 THEN 1 ELSE b * Pow(b, e - 1)

\* Math.pow(1.5, e) as the exact fraction 3^e / 2^e
Pow15(e) == [num |-> Pow(3, e), den |-> Pow(2, e)]

\* ReconnectDelay with the exponent a instead of a - 1
ReconnectDelayExponentA(a) ==
    LET p == Pow15(a)
    IN  [num |-> reconnectInterval * p.num, den |-> p.den]

\* scheduleReconnect's delay in ms, a fraction, for the incremented counter a
ReconnectDelay(a) ==
    LET p == Pow15(a - 1)
    IN  [num |-> reconnectInterval * p.num, den |-> p.den]

\* number of active interval timers of each kind
ActiveHeartbeats == (IF heartbeatTimer THEN 1 ELSE 0) + leakedHeartbeats
ActivePolls == (IF pollingInterval THEN 1 ELSE 0) + leakedPolls

\* what a handler that calls no subscriber leaves in the history variables
Did(op, result) ==
    /\ lastOp' = op
    /\ lastResult' = result
    /\ lastInvoked' = << >>
    /\ delivered' = << >>

\* the same for a handler whose emit() calls made the subscriber calls log
DidEmit(op, result, log) ==
    /\ lastOp' = op
    /\ lastResult' = result
    /\ lastInvoked' = << >>
    /\ delivered' = log

\* the event names the client publishes
Events == {"connected", "disconnected", "error", "update", "metrics_update",
           "agent_status_change", "task_status_change", "system_alert",
           "pool_scaling", "notification"}

\* the subscriber callbacks: two that return, one that throws
Callbacks == {"a", "b", "bad"}

CallbackThrows(cb) == cb = "bad"

\* this.listeners = {}: no callback for any event
NoListeners == [e \in Events |-> << >>]

\* emit(event) without a second argument: data is undefined
NoData == "undefined"

\* this.lastHeartbeat = null
NoHeartbeat == -1

\* ---- constructor and init() (realtime.js:7-37) ------------------------------
Init ==
    /\ sockets = << >>
    /\ websocket = NoSocket
    /\ isConnected = FALSE
    /\ reconnectAttempts = 0
    /\ heartbeatTimer = FALSE
    /\ leakedHeartbeats = 0
    /\ pollingInterval = TRUE       \* init() calls startPollingFallback()
    /\ leakedPolls = 0
    /\ reconnectTimers = 0
    /\ updateQueue = << >>
    /\ updateTimer = FALSE
    /\ flushTimers = 0
    /\ pollsInFlight = 0
    /\ listeners = NoListeners
    /\ notifications = << >>
    /\ notified = 0
    /\ notificationCount = 0
    /\ lastHeartbeat = NoHeartbeat
    /\ clock = 0
    /\ fetchPhase = "idle"
    /\ retries = 0
    /\ fetchLog = << >>
    /\ cleaned = FALSE
    /\ lastOp = "init"
    /\ lastResult = "none"
    /\ lastInvoked = << >>
    /\ delivered = << >>

\* ---- connect() (realtime.js:64-106) -----------------------------------------
\* connect() without its early return
AlreadyOpenNeverTaken == FALSE

\* the early return of connect(): the current socket is open
AlreadyOpen ==
    websocket # NoSocket /\ ReadyState(sockets, websocket) = "open"

\* connect(): what it does to the sockets and what it returns ("resolved":
\* an already resolved promise, "pending": the promise of the socket it
\* created)
connect(caught) ==
    IF AlreadyOpen
    THEN /\ UNCHANGED <<sockets, websocket>>
         /\ Did("connect", "resolved")
    ELSE /\ Len(sockets) < MaxSockets
         /\ sockets' = Append(sockets, NewSocket(caught))
         /\ websocket' = Len(sockets) + 1
         /\ Did("connect", "pending")

\* ---- send(data) (realtime.js:558-562) ----------------------------------------
\* send() testing only this.isConnected, not the readyState
SendOutcomeNoReadyState ==
    IF isConnected
    THEN IF websocket = NoSocket THEN "threw"
         ELSE IF ReadyState(sockets, websocket) = "connecting" THEN "threw"
         ELSE IF ReadyState(sockets, websocket) = "open" THEN "sent"
         ELSE "dropped"
    ELSE "dropped"

\* data is one of the plain frames of the protocol ({type: 'ping'},
\* {type: 'page_hidden'}, {type: 'page_visible'}), which JSON.stringify
\* serialises without an exception.  "sent": the frame went to
\* WebSocket.send; "dropped": nothing happened; "threw": a TypeError (null
\* socket) or an InvalidStateError (send while CONNECTING) escaped.
SendOutcome ==
    IF isConnected
    THEN IF websocket = NoSocket THEN "threw"
         ELSE IF ReadyState(sockets, websocket) = "open" THEN "sent"
         ELSE "dropped"
    ELSE "dropped"

\* ---- timers -------------------------------------------------------------------
\* startHeartbeat(): setInterval, the old handle is overwritten
startHeartbeat ==
    /\ heartbeatTimer' = TRUE
    /\ leakedHeartbeats' = leakedHeartbeats + (IF heartbeatTimer THEN 1 ELSE 0)
    /\ leakedHeartbeats' <= MaxLeaked

\* stopHeartbeat(): clears the interval the handle refers to
stopHeartbeat ==
    /\ heartbeatTimer' = FALSE
    /\ UNCHANGED leakedHeartbeats

\* startPollingFallback(): setInterval, the old handle is overwritten
startPollingFallback ==
    /\ pollingInterval' = TRUE
    /\ leakedPolls' = leakedPolls + (IF pollingInterval THEN 1 ELSE 0)
    /\ leakedPolls' <= MaxLeaked

\* stopPollingFallback(): clears the interval the handle refers to
stopPollingFallback ==
    /\ pollingInterval' = FALSE
    /\ UNCHANGED leakedPolls

\* handleWebSocketOpen without the reset of the counter
AttemptsAfterOpenKept(a) == a

\* the counter after handleWebSocketOpen (realtime.js:111)
AttemptsAfterOpen(a) == 0

\* the test of handleWebSocketClose with <= for <
ShouldReconnectOffByOne(code) ==
    code # 1000 /\ reconnectAttempts <= maxReconnectAttempts

\* the test of handleWebSocketClose (realtime.js:138)
ShouldReconnect(code) ==
    code # 1000 /\ reconnectAttempts < maxReconnectAttempts

\* scheduleReconnect() called by handleWebSocketClose(event) with
\* event.code = code: increment, then one setTimeout with the delay
scheduleReconnect(code) ==
    /\ reconnectTimers < MaxTimers
    /\ reconnectAttempts' = reconnectAttempts + 1
    /\ reconnectTimers' = reconnectTimers + 1
    /\ lastResult' = <<code, reconnectAttempts,
                       ReconnectDelay(reconnectAttempts + 1)>>

\* handleWebSocketClose(event) with event.code = code
handleWebSocketClose(code) ==
    /\ isConnected' = FALSE
    /\ stopHeartbeat
    /\ IF ShouldReconnect(code)
       THEN /\ scheduleReconnect(code)
            /\ UNCHANGED <<pollingInterval, leakedPolls>>
       ELSE /\ startPollingFallback
            /\ lastResult' = <<code, reconnectAttempts>>
            /\ UNCHANGED <<reconnectAttempts, reconnectTimers>>

\* ---- queueUpdate / processUpdateQueue (realtime.js:392-415) -----------------
\* queueUpdate(fn): push, and arm the flush timer when the handle is falsy
queueUpdate(fn) ==
    /\ Len(updateQueue) < MaxQueue
    /\ updateQueue' = Append(updateQueue, fn)
    /\ IF ~updateTimer
       THEN updateTimer' = TRUE /\ flushTimers' = flushTimers + 1
       ELSE UNCHANGED <<updateTimer, flushTimers>>

\* the functions forEach invokes before the try block is left: all of them,
\* or those up to and including the first that throws
RECURSIVE Invoked(_)
Invoked(q) ==
    IF q = << >> THEN << >>
    ELSE IF Throws(Head(q)) THEN <<Head(q)>>
    ELSE <<Head(q)>> \o Invoked(Tail(q))

\* the functions fn hands to queueUpdate while it runs
Enqueues(fn) == IF fn = "nest" THEN <<"u1">> ELSE << >>

\* the functions pushed onto this.updateQueue while forEach invokes those
\* of the sequence invoked
RECURSIVE Pushed(_)
Pushed(invoked) ==
    IF invoked = << >> THEN << >>
    ELSE Enqueues(Head(invoked)) \o Pushed(Tail(invoked))

\* ---- on / off / emit (realtime.js:565-588) ----------------------------------
RECURSIVE Registered(_, _)
\* number of callbacks registered in ls for the events of the set es
Registered(ls, es) ==
    IF es = {} THEN 0
    ELSE LET e == CHOOSE x \in es : TRUE
         IN  Len(ls[e]) + Registered(ls, es \ {e})

\* on() refusing a callback that is already registered for the event
OnRegisteredOnce(cbs, cb) ==
    IF \E i \in 1..Len(cbs) : cbs[i] = cb THEN cbs ELSE Append(cbs, cb)

\* on(event, callback): push, duplicates included
OnRegistered(cbs, cb) == Append(cbs, cb)

\* off() removing the first registration of the callback only
RECURSIVE OffRegisteredFirst(_, _)
OffRegisteredFirst(cbs, cb) ==
    IF cbs = << >> THEN << >>
    ELSE IF Head(cbs) = cb THEN Tail(cbs)
    ELSE <<Head(cbs)>> \o OffRegisteredFirst(Tail(cbs), cb)

\* off(event, callback): filter drops every registration of the callback
OffRegistered(cbs, cb) == SelectSeq(cbs, LAMBDA c : c # cb)

RECURSIVE EmitInvokedOneTry(_)
\* emit() with one try block around the whole forEach
EmitInvokedOneTry(cbs) ==
    IF cbs = << >> THEN << >>
    ELSE IF CallbackThrows(Head(cbs)) THEN <<Head(cbs)>>
    ELSE <<Head(cbs)>> \o EmitInvokedOneTry(Tail(cbs))

RECURSIVE EmitInvoked(_)
\* the callbacks emit() invokes: forEach with the try inside the loop, so a
\* callback that throws is caught and the loop goes on
EmitInvoked(cbs) ==
    IF cbs = << >> THEN << >>
    ELSE <<Head(cbs)>> \o EmitInvoked(Tail(cbs))

\* what emit() returns to its caller: every exception is caught in the loop
EmitOutcome(cbs) == "returned"

\* emit(event, data) with the registry ls: the calls made, in order
emit(ls, event, data) ==
    LET cbs == EmitInvoked(ls[event])
    IN  [i \in 1..Len(cbs) |-> <<event, cbs[i], data>>]

\* ---- notifications (realtime.js:466-522) -----------------------------------
\* the notification showNotification(message, type) builds: its id is
\* Date.now(); k numbers the notifications in the order they were built
Notification(k, type) ==
    [n |-> k, id |-> clock, type |-> type, timestamp |-> "Date"]

\* JSON.parse(JSON.stringify(notification)): the Date becomes a string
Stored(notification) == [notification EXCEPT !.timestamp = "string"]

\* storeNotification without the splice
TruncateNever(stored) == stored

\* if (stored.length > 50) stored.splice(50)
Truncate(stored) ==
    IF Len(stored) > NotificationCap THEN SubSeq(stored, 1, NotificationCap)
    ELSE stored

\* storeNotification(notification): unshift, truncate, setItem, then
\* updateNotificationCount(stored.length)
storeNotification(notification) ==
    /\ notifications' = Truncate(<<Stored(notification)>> \o notifications)
    /\ notificationCount' = Len(notifications')
    /\ notified' = notified + 1

\* clearNotifications leaving the newest notification in the store
ClearedStoreKeepsNewest(stored) ==
    IF stored = << >> THEN << >> ELSE <<Head(stored)>>

\* localStorage.removeItem(key), read back by getStoredNotifications():
\* JSON.parse(null || '[]')
ClearedStore(stored) == << >>

\* ---- inbound frames (realtime.js:119-126, 183-249) -------------------------
MetricsPayloads == {"m1", "m2", "mBad"}

\* the closure handleMetricsUpdate(payload) queues: updateMetrics and
\* updateCharts of the dashboard with the payload, which throw on a payload
\* without the fields they read
RefreshFn(payload) ==
    CASE payload = "m1" -> "u1"
      [] payload = "m2" -> "u2"
      [] payload = "mBad" -> "boom"
      [] payload = NoData -> "boom"

Statuses == {"idle", "busy", "failed"}

\* well-formed agent_status_change payloads (agent_id and pool_name fixed)
AgentPayloads == [old_status : Statuses, new_status : Statuses]

MetricsFrames == {[type |-> "metrics_update", payload |-> p] :
                      p \in MetricsPayloads}

AgentFrames == {[type |-> "agent_status_change", payload |-> p] :
                    p \in AgentPayloads}

\* the levels of a system alert: those handleSystemAlert names and two others
Levels == {"critical", "error", "warning", "info", "debug"}

\* well-formed system_alert payloads (message, component and details fixed)
AlertFrames == {[type |-> "system_alert", payload |-> [level |-> l]] :
                    l \in Levels}

\* the heartbeat acknowledgment and a frame of a type the switch does not know
OtherFrames == {[type |-> "pong", payload |-> NoData],
                [type |-> "unknown_type", payload |-> NoData]}

Frames == MetricsFrames \cup AgentFrames \cup OtherFrames

\* the five data types processRealTimeUpdate has a handler for
RecognizedTypes == {"metrics_update", "agent_status_change",
                    "task_status_change", "system_alert", "pool_scaling"}

\* a frame whose text JSON.parse rejects
Unparseable == [unparseable |-> TRUE]

\* the frames of a recognized type that have no payload member
MissingPayloadFrames == {[type |-> t] : t \in RecognizedTypes}

BadFrames == {Unparseable} \cup MissingPayloadFrames

\* JSON.parse(event.data) returns an object
Parses(raw) == "type" \in DOMAIN raw

HasPayload(f) == "payload" \in DOMAIN f

\* data.payload: undefined when the frame has no such member
PayloadOf(f) == IF HasPayload(f) THEN f.payload ELSE NoData

\* the types whose handler starts by destructuring its payload, which
\* throws a TypeError on undefined
DestructuringTypes == {"agent_status_change", "task_status_change",
                       "system_alert", "pool_scaling"}

\* the catch branch of handleWebSocketMessage is taken: JSON.parse threw, or
\* the handler of the type threw before it did anything
MessageCaught(raw) ==
    \/ ~Parses(raw)
    \/ raw.type \in DestructuringTypes /\ ~HasPayload(raw)

\* handleAgentStatusChange notifying of every change away from 'failed'
AgentNotificationAnyRecovery(payload) ==
    IF payload.new_status = "failed" THEN <<"warning">>
    ELSE IF payload.old_status = "failed" THEN <<"success">>
    ELSE << >>

\* the types of the notifications handleAgentStatusChange shows
AgentNotification(payload) ==
    IF payload.new_status = "failed" THEN <<"warning">>
    ELSE IF payload.old_status = "failed" /\ payload.new_status = "idle"
    THEN <<"success">>
    ELSE << >>

\* handleSystemAlert showing a critical alert like any other level
AlertNotificationErrorOnly(payload) ==
    IF payload.level = "error" THEN "error"
    ELSE IF payload.level = "warning" THEN "warning"
    ELSE "info"

\* the type of the notification handleSystemAlert shows
AlertNotification(payload) ==
    IF payload.level \in {"error", "critical"} THEN "error"
    ELSE IF payload.level = "warning" THEN "warning"
    ELSE "info"

\* the types of the notifications the handler of frame f shows
Shown(f) ==
    IF f.type = "agent_status_change" THEN AgentNotification(f.payload)
    ELSE IF f.type = "system_alert" THEN <<AlertNotification(f.payload)>>
    ELSE << >>

\* the subscriber calls of showNotification for the types shown, the first
\* notification being number k
NotificationLog(ls, shown, k) ==
    IF shown = << >> THEN << >>
    ELSE emit(ls, "notification", Notification(k, shown[1]))

\* the subscriber calls of handleMetricsUpdate(payload)
MetricsLog(ls, payload) == emit(ls, "metrics_update", payload)

\* the subscriber calls of processRealTimeUpdate(f): those of the handler
\* of the type, then emit('update', f) for every frame
FrameLog(ls, f, k) ==
    (CASE f.type = "metrics_update" -> MetricsLog(ls, PayloadOf(f))
       [] f.type = "agent_status_change" ->
              NotificationLog(ls, Shown(f), k)
                  \o emit(ls, "agent_status_change", f.payload)
       [] f.type = "system_alert" ->
              NotificationLog(ls, Shown(f), k)
                  \o emit(ls, "system_alert", f.payload)
       [] OTHER -> << >>)
    \o emit(ls, "update", f)

\* the polling callback publishing whatever the server answered
PollDeliversAnyResponse(outcome) == outcome \in {"ok", "notOk"}

\* the polling callback hands the body to handleMetricsUpdate only when
\* fetch resolved, response.ok holds and response.json() resolved
PollDelivers(outcome) == outcome = "ok"

\* ---- the actions: one per handler ---------------------------------------------
\* window.initializeRealTimeUpdates(): connect().catch(...)
\* (realtime.js:612-618)
ConnectCall ==
    /\ connect(TRUE)
    /\ UNCHANGED <<isConnected, reconnectAttempts, heartbeatTimer,
                   leakedHeartbeats, pollingInterval, leakedPolls,
                   reconnectTimers, queueVars, pollsInFlight, dispatchVars,
                   heartbeatVars, cleaned, fetchVars>>

\* the 'online' and 'visibilitychange' handlers calling connect() whatever
\* isConnected is
ShouldRepromoteAlways == TRUE

\* the test of handleNetworkOnline and handlePageVisible before connect()
ShouldRepromote == ~isConnected

\* the 'online' event: handleNetworkOnline (realtime.js:544-551)
NetworkOnline ==
    /\ IF ShouldRepromote
       THEN connect(TRUE)
       ELSE UNCHANGED <<sockets, websocket, historyVars>>
    /\ UNCHANGED <<isConnected, reconnectAttempts, heartbeatTimer,
                   leakedHeartbeats, pollingInterval, leakedPolls,
                   reconnectTimers, queueVars, pollsInFlight, dispatchVars,
                   heartbeatVars, cleaned, fetchVars>>

\* 'visibilitychange' to visible: handlePageVisible (realtime.js:532-542)
PageVisible ==
    /\ IF ShouldRepromote
       THEN connect(TRUE)
       ELSE /\ UNCHANGED <<sockets, websocket>>
            /\ Did("send", SendOutcome)
    /\ UNCHANGED <<isConnected, reconnectAttempts, heartbeatTimer,
                   leakedHeartbeats, pollingInterval, leakedPolls,
                   reconnectTimers, queueVars, pollsInFlight, dispatchVars,
                   heartbeatVars, cleaned, fetchVars>>

\* 'visibilitychange' to hidden: handlePageHidden (realtime.js:524-530)
PageHidden ==
    /\ IF isConnected
       THEN Did("send", SendOutcome)
       ELSE UNCHANGED historyVars
    /\ UNCHANGED <<clientVars, cleaned, fetchVars>>

\* a direct call of send(data)
Send ==
    /\ Did("send", SendOutcome)
    /\ UNCHANGED <<clientVars, cleaned, fetchVars>>

\* the open event of socket s: onopen = handleWebSocketOpen, then resolve()
SocketOpen(s) ==
    /\ sockets[s].state = "connecting"
    /\ sockets' = [sockets EXCEPT ![s].state = "open",
                       ![s].promise = Settle(sockets[s].promise, "resolved")]
    /\ isConnected' = TRUE
    /\ reconnectAttempts' = AttemptsAfterOpen(reconnectAttempts)
    /\ startHeartbeat
    /\ DidEmit("open", reconnectAttempts,     \* the counter it resets
               emit(listeners, "connected", NoData))
    /\ UNCHANGED <<websocket, pollingInterval, leakedPolls, reconnectTimers,
                   queueVars, pollsInFlight, dispatchVars,
                   heartbeatVars, cleaned, fetchVars>>

\* the connection of socket s fails or is lost: the error event
\* (handleWebSocketError, then reject) and the close event with code 1006,
\* dispatched one after the other
SocketFail(s) ==
    /\ sockets[s].state \in {"connecting", "failing", "open", "closing"}
    /\ LET closed == [sockets EXCEPT ![s].state = "closed",
                         ![s].promise = Settle(sockets[s].promise, "rejected")]
       IN  /\ sockets' = Live(closed)
           /\ websocket' = Reindex(closed, websocket)
    /\ handleWebSocketClose(1006)
    /\ lastOp' = "fail"
    /\ lastInvoked' = << >>
    /\ delivered' = emit(listeners, "error", "event")
                         \o emit(listeners, "disconnected", NoData)
    /\ UNCHANGED <<queueVars, pollsInFlight, dispatchVars,
                   heartbeatVars, cleaned, fetchVars>>

\* close codes of a closing handshake: 1000 (normal) and 1001 (going away)
HandshakeCodes == {1000, 1001}

\* the close event of an established socket s after a closing handshake:
\* started by the server, or by cleanup()'s close(1000)
SocketClose(s, code) ==
    /\ \/ sockets[s].state = "open"
       \/ sockets[s].state = "closing" /\ code = 1000
    /\ LET closed == [sockets EXCEPT ![s].state = "closed"]
       IN  /\ sockets' = Live(closed)
           /\ websocket' = Reindex(closed, websocket)
    /\ handleWebSocketClose(code)
    /\ lastOp' = "close"
    /\ lastInvoked' = << >>
    /\ delivered' = emit(listeners, "disconnected", NoData)
    /\ UNCHANGED <<queueVars, pollsInFlight, dispatchVars,
                   heartbeatVars, cleaned, fetchVars>>

\* the socket the timeout of the connect() call that created socket s tests
\* and closes (realtime.js:96-97)
TimeoutTarget(s) == websocket

\* the 5 s timeout armed by the connect() call that created socket s; the
\* timeouts have the same delay, so they fire in the order of the calls
ConnectTimeout(s) ==
    /\ sockets[s].timeout = "armed"
    /\ \A r \in 1..(s - 1) : sockets[r].timeout = "fired"
    /\ LET t == TimeoutTarget(s)
           fired == [sockets EXCEPT ![s].timeout = "fired"]
           after == IF ReadyState(fired, t) # "open"
                    THEN [CloseSocket(fired, t) EXCEPT
                             ![s].promise = Settle(fired[s].promise, "rejected")]
                    ELSE fired
       IN  /\ sockets' = Live(after)
           /\ websocket' = Reindex(after, websocket)
    /\ Did("timeout", "none")
    /\ UNCHANGED <<isConnected, reconnectAttempts, heartbeatTimer,
                   leakedHeartbeats, pollingInterval, leakedPolls,
                   reconnectTimers, queueVars, pollsInFlight, dispatchVars,
                   heartbeatVars, cleaned, fetchVars>>

\* a reconnect timeout fires (realtime.js:158-164)
ReconnectTimerFire ==
    /\ reconnectTimers > 0
    /\ reconnectTimers' = reconnectTimers - 1
    /\ IF ~isConnected
       THEN connect(TRUE)
       ELSE /\ UNCHANGED <<sockets, websocket>>
            /\ Did("reconnectTimer", "none")
    /\ UNCHANGED <<isConnected, reconnectAttempts, heartbeatTimer,
                   leakedHeartbeats, pollingInterval, leakedPolls,
                   queueVars, pollsInFlight, dispatchVars,
                   heartbeatVars, cleaned, fetchVars>>

\* one heartbeat interval fires (realtime.js:168-173)
HeartbeatTick ==
    /\ ActiveHeartbeats > 0
    /\ IF SendOutcome = "dropped"
       THEN UNCHANGED <<historyVars, lastHeartbeat>>
       ELSE /\ Did("heartbeat", SendOutcome)
            /\ lastHeartbeat' = IF SendOutcome = "sent" THEN clock
                                ELSE lastHeartbeat
    /\ UNCHANGED <<connectionVars, queueVars, pollsInFlight, dispatchVars,
                   clock, cleaned, fetchVars>>

\* one polling interval fires and issues fetch('/admin/api/metrics')
PollTick ==
    /\ ActivePolls > 0
    /\ pollsInFlight < MaxInFlight
    /\ pollsInFlight' = pollsInFlight + 1
    /\ Did("poll", "none")
    /\ UNCHANGED <<sockets, websocket, isConnected, reconnectAttempts,
                   heartbeatTimer, leakedHeartbeats, pollingInterval,
                   leakedPolls, reconnectTimers, queueVars, dispatchVars,
                   heartbeatVars, cleaned, fetchVars>>

\* "ok": an OK response with a JSON body; "notOk": a response that is not
\* OK; "badBody": an OK response whose body is not JSON (response.json()
\* rejects); "error": fetch rejects
PollOutcomes == {"ok", "notOk", "badBody", "error"}

\* the polling request is answered (realtime.js:423-430) with the body
\* payload: handleMetricsUpdate(payload) when it is delivered
PollResponse(outcome, payload) ==
    /\ pollsInFlight > 0
    /\ pollsInFlight' = pollsInFlight - 1
    /\ IF PollDelivers(outcome)
       THEN /\ queueUpdate(RefreshFn(payload))
            /\ DidEmit("pollResponse", <<outcome, payload>>,
                       MetricsLog(listeners, payload))
       ELSE /\ UNCHANGED queueVars
            /\ Did("pollResponse", <<outcome, payload>>)
    /\ UNCHANGED <<connectionVars, dispatchVars, heartbeatVars,
                   cleaned, fetchVars>>

\* a direct call of queueUpdate(fn)
QueueUpdate(fn) ==
    /\ queueUpdate(fn)
    /\ Did("queueUpdate", "none")
    /\ UNCHANGED <<connectionVars, pollsInFlight, dispatchVars, heartbeatVars,
                   cleaned, fetchVars>>

\* the flush timer fires: processUpdateQueue (realtime.js:402-415)
processUpdateQueue ==
    /\ flushTimers > 0
    /\ LET pushed == Pushed(Invoked(updateQueue))
       IN  \* a queueUpdate call made during the flush arms a timer only
           \* when the handle is falsy; the finally block resets the handle
           /\ flushTimers' = IF pushed # << >> /\ ~updateTimer
                             THEN flushTimers ELSE flushTimers - 1
           \* forEach does not visit what was appended after it started,
           \* and the finally block drops it with the rest
           /\ updateQueue' = << >>
    /\ lastInvoked' = Invoked(updateQueue)
    /\ updateTimer' = FALSE
    /\ lastOp' = "flush"
    /\ lastResult' = Len(updateQueue)
    /\ delivered' = << >>
    /\ UNCHANGED <<connectionVars, pollsInFlight, dispatchVars, heartbeatVars,
                   cleaned, fetchVars>>

\* cleanup() (realtime.js:590-603); the handle updateTimer is not reset
cleanup ==
    /\ stopHeartbeat
    /\ stopPollingFallback
    /\ sockets' = CloseSocket(sockets, websocket)
    /\ flushTimers' = IF updateTimer /\ flushTimers > 0 THEN flushTimers - 1
                      ELSE flushTimers
    /\ listeners' = NoListeners
    /\ cleaned' = TRUE
    /\ Did("cleanup", "none")
    /\ UNCHANGED <<websocket, isConnected, reconnectAttempts, reconnectTimers,
                   updateQueue, updateTimer, pollsInFlight, notifications,
                   notified, notificationCount, heartbeatVars, fetchVars>>

\* a call of on(event, callback), e.g. by window.subscribeToUpdates
On(event, cb) ==
    /\ Registered(listeners, Events) < MaxListeners
    /\ listeners' = [listeners EXCEPT ![event] = OnRegistered(@, cb)]
    /\ Did("on", <<event, cb>>)
    /\ UNCHANGED <<connectionVars, queueVars, pollsInFlight, notifications,
                   notified, notificationCount, heartbeatVars,
                   cleaned, fetchVars>>

\* a call of off(event, callback), e.g. by window.unsubscribeFromUpdates
Off(event, cb) ==
    /\ listeners' = [listeners EXCEPT ![event] = OffRegistered(@, cb)]
    /\ Did("off", <<event, cb>>)
    /\ UNCHANGED <<connectionVars, queueVars, pollsInFlight, notifications,
                   notified, notificationCount, heartbeatVars,
                   cleaned, fetchVars>>

\* a direct call of emit(event, data)
Emit(event, data) ==
    /\ DidEmit("emit", <<event, data, EmitOutcome(listeners[event])>>,
               emit(listeners, event, data))
    /\ UNCHANGED <<clientVars, cleaned, fetchVars>>

\* a direct call of storeNotification(notification), the notification being
\* one showNotification would build
StoreNotification(type) ==
    /\ notified < MaxStoreCalls
    /\ storeNotification(Notification(notified + 1, type))
    /\ Did("storeNotification", type)
    /\ UNCHANGED <<connectionVars, queueVars, pollsInFlight, listeners,
                   heartbeatVars, cleaned, fetchVars>>

\* clearNotifications(): removeItem, then updateNotificationCount(0)
\* (realtime.js:519-522)
clearNotifications ==
    /\ notifications' = ClearedStore(notifications)
    /\ notificationCount' = 0
    /\ Did("clearNotifications", "none")
    /\ UNCHANGED <<connectionVars, queueVars, pollsInFlight, listeners,
                   notified, heartbeatVars, cleaned, fetchVars>>

\* the message event of a socket with the frame f: handleWebSocketMessage
\* -> processRealTimeUpdate (realtime.js:119-126, 183-214).  The handlers
\* read and write no connection state; an exception of JSON.parse or of a
\* handler is caught and logged.
handleWebSocketMessage(f) ==
    IF MessageCaught(f)
    THEN /\ Did("messageError", f)
         /\ UNCHANGED <<clientVars, cleaned, fetchVars>>
    ELSE /\ IF f.type = "metrics_update"
            THEN queueUpdate(RefreshFn(PayloadOf(f)))
            ELSE UNCHANGED queueVars
         /\ IF Shown(f) # << >>
            THEN /\ notified < MaxFrameNotifications
                 /\ storeNotification(Notification(notified + 1, Shown(f)[1]))
            ELSE UNCHANGED <<notifications, notified, notificationCount>>
         /\ DidEmit("message", f, FrameLog(listeners, f, notified + 1))
         /\ UNCHANGED <<connectionVars, pollsInFlight, listeners,
                        heartbeatVars, cleaned, fetchVars>>

\* ---- fetchWithRetry (dashboard.js:517-540) -------------------------------
\* the URLs fetchWithRetry is called with
Urls == {"/admin/api/metrics", "/admin/tasks/t/retry"}

\* "ok": fetch resolved with an OK response; "notOk": with a response that
\* is not OK; "error": fetch rejected (network error)
FetchOutcomes == {"ok", "notOk", "error"}

\* fetchWithRetry retrying once more than config.maxRetries allows
MayRetryInclusive(r) == r <= maxRetries

\* retries < this.config.maxRetries
MayRetry(r) == r < maxRetries

\* this.config.retryDelay * Math.pow(2, retries)
RetryWait(r) == retryDelay * Pow(2, r)

\* the URL of the request the running call issued first
FetchUrl == fetchLog[1][2]

\* a top-level call fetchWithRetry(url): retries = 0, and fetch is awaited
FetchCall(url) ==
    /\ fetchPhase \in {"idle", "returned", "threw"}
    /\ fetchPhase' = "fetching"
    /\ retries' = 0
    /\ fetchLog' = << <<"request", url>> >>
    /\ UNCHANGED <<clientVars, cleaned, historyVars>>

\* the awaited fetch settles: the response is returned, or the error is
\* rethrown, or the delay before the next retry is awaited
FetchSettled(outcome) ==
    /\ fetchPhase = "fetching"
    /\ fetchPhase' =
           IF outcome = "ok" THEN "returned"
           ELSE IF MayRetry(retries) THEN "delaying"
           ELSE IF outcome = "notOk" THEN "returned"
           ELSE "threw"
    /\ fetchLog' =
           IF outcome # "ok" /\ MayRetry(retries)
           THEN fetchLog \o << <<"settled", outcome>>,
                               <<"delay", RetryWait(retries)>> >>
           ELSE Append(fetchLog, <<"settled", outcome>>)
    /\ UNCHANGED <<retries, clientVars, cleaned, historyVars>>

\* the delay is over: fetchWithRetry(url, options, retries + 1), whose
\* result is the result of the call
FetchDelayOver ==
    /\ fetchPhase = "delaying"
    /\ fetchPhase' = "fetching"
    /\ retries' = retries + 1
    /\ fetchLog' = Append(fetchLog, <<"request", FetchUrl>>)
    /\ UNCHANGED <<clientVars, cleaned, historyVars>>

\* ---- the specifications ---------------------------------------------------------
Next ==
    \/ ConnectCall
    \/ NetworkOnline
    \/ PageVisible
    \/ PageHidden
    \/ Send
    \/ \E s \in SockIds : SocketOpen(s)
    \/ \E s \in SockIds : SocketFail(s)
    \/ \E s \in SockIds, code \in HandshakeCodes : SocketClose(s, code)
    \/ \E s \in SockIds : ConnectTimeout(s)
    \/ ReconnectTimerFire
    \/ HeartbeatTick
    \/ cleanup

Spec == Init /\ [][Next]_vars

NextQueue ==
    \/ \E fn \in UpdateFns : QueueUpdate(fn)
    \/ PollTick
    \/ \E outcome \in PollOutcomes, p \in MetricsPayloads :
           PollResponse(outcome, p)
    \/ processUpdateQueue
    \/ cleanup

SpecQueue == Init /\ [][NextQueue]_vars

\* the events and the data the subscribers of SpecEmitter use
EmitterEvents == {"update", "metrics_update"}

EmitData == {"d1"}

NextEmitter ==
    \/ \E e \in EmitterEvents, cb \in Callbacks : On(e, cb)
    \/ \E e \in EmitterEvents, cb \in Callbacks : Off(e, cb)
    \/ \E e \in EmitterEvents, d \in EmitData : Emit(e, d)
    \/ cleanup

SpecEmitter == Init /\ [][NextEmitter]_vars

NextStore ==
    \/ StoreNotification("info")
    \/ clearNotifications

SpecStore == Init /\ [][NextStore]_vars

\* the events subscribed to and the bodies polled in SpecDispatch
DispatchEvents == {"update", "metrics_update", "agent_status_change",
                   "notification"}

DispatchPayloads == {"m1"}

\* the frames received in SpecDispatch: every frame whose metrics payload,
\* if it has one, is one of DispatchPayloads
DispatchFrames ==
    {f \in Frames : f.type = "metrics_update" => f.payload \in DispatchPayloads}

NextDispatch ==
    \/ \E e \in DispatchEvents : On(e, "a")
    \/ \E f \in DispatchFrames : handleWebSocketMessage(f)
    \/ PollTick
    \/ \E outcome \in PollOutcomes, p \in DispatchPayloads :
           PollResponse(outcome, p)
    \/ processUpdateQueue
    \/ clearNotifications

SpecDispatch == Init /\ [][NextDispatch]_vars

\* the frames received in SpecProtocol: the bad ones, the one of an unknown
\* type and one well-formed frame that follows them
ProtocolFrames ==
    BadFrames \cup {[type |-> "unknown_type", payload |-> NoData],
                    [type |-> "metrics_update", payload |-> "m1"]}

NextProtocol ==
    \/ \E e \in EmitterEvents : On(e, "a")
    \/ \E f \in ProtocolFrames : handleWebSocketMessage(f)
    \/ processUpdateQueue

SpecProtocol == Init /\ [][NextProtocol]_vars

\* time passes between two handlers
Tick ==
    /\ clock < MaxClock
    /\ clock' = clock + 1
    /\ Did("tick", "none")     \* no handler of the client runs
    /\ UNCHANGED <<connectionVars, queueVars, pollsInFlight, dispatchVars,
                   lastHeartbeat, cleaned, fetchVars>>

NextHeartbeat ==
    \/ ConnectCall
    \/ \E s \in SockIds : SocketOpen(s)
    \/ \E s \in SockIds : SocketFail(s)
    \/ HeartbeatTick
    \/ handleWebSocketMessage([type |-> "pong", payload |-> NoData])
    \/ Tick

SpecHeartbeat == Init /\ [][NextHeartbeat]_vars

\* the events subscribed to in SpecAlert
AlertEvents == {"notification", "system_alert"}

NextAlert ==
    \/ \E e \in AlertEvents : On(e, "a")
    \/ \E f \in AlertFrames : handleWebSocketMessage(f)
    \/ clearNotifications
    \/ Tick

SpecAlert == Init /\ [][NextAlert]_vars

NextFetch ==
    \/ \E url \in Urls : FetchCall(url)
    \/ \E outcome \in FetchOutcomes : FetchSettled(outcome)
    \/ FetchDelayOver

SpecFetch == Init /\ [][NextFetch]_vars

\* ---- the claims ------------------------------------------------------------------
\* a channel is open from its open event to its close event
ChannelOpen ==
    \E s \in SockIds : sockets[s].state \in {"open", "closing"}

\* the handlers that handle a close event
CloseOps == {"fail", "close"}

\* C1: a channel is never open while a polling interval timer is active.
C1_OneTransport == ChannelOpen => ActivePolls = 0

\* C2 as claimed: once maxReconnectAttempts consecutive attempts have failed
\* (each of their closes has incremented the counter, which is now
\* maxReconnectAttempts) the client polls and no reconnect timer is pending.
C2_ExhaustedAfterN ==
    (lastOp = "fail" /\ reconnectAttempts = maxReconnectAttempts)
        => ActivePolls > 0 /\ reconnectTimers = 0

\* C2 as amended: a failure handled when the counter is already
\* maxReconnectAttempts (the (maxReconnectAttempts + 1)-th in a row)
\* restarts the polling timer and schedules no reconnect timer; a reconnect
\* timer is scheduled only by a close handled with the counter below
\* maxReconnectAttempts.
C2_ExhaustedAfterNPlusOne ==
    [][ /\ (lastOp' = "fail" /\ reconnectAttempts = maxReconnectAttempts)
            => /\ pollingInterval'
               /\ reconnectTimers' = reconnectTimers
               /\ reconnectAttempts' = maxReconnectAttempts
        /\ reconnectTimers' > reconnectTimers
            => /\ lastOp' \in CloseOps
               /\ reconnectAttempts < maxReconnectAttempts ]_vars

\* the initial attempt and maxReconnectAttempts retries have failed one after
\* the other: the last close found the counter at the maximum, polling has
\* been restarted and no retry is pending
C2_Witness ==
    /\ lastOp = "fail"
    /\ lastResult = <<1006, maxReconnectAttempts>>
    /\ reconnectAttempts = maxReconnectAttempts
    /\ reconnectTimers = 0
    /\ pollingInterval
    /\ leakedPolls = 1
    /\ ~cleaned

\* C3: the open handler sets reconnectAttempts to 0 whatever it was, and no
\* other handler lowers it.
C3_ResetOnlyOnOpen ==
    [][ /\ lastOp' = "open" => reconnectAttempts' = 0
        /\ reconnectAttempts' < reconnectAttempts => lastOp' = "open" ]_vars

\* an open has reset a counter that had reached the maximum
C3_Witness ==
    /\ lastOp = "open"
    /\ lastResult = maxReconnectAttempts
    /\ reconnectAttempts = 0

\* C4: a close with a code other than 1000 handled with the counter below the
\* maximum increments the counter by one, schedules exactly one reconnect
\* timer, of delay reconnectInterval * 1.5^(a - 1) for the incremented
\* counter a, and starts no polling timer.
C4_BackoffStep ==
    [][ (lastOp' \in CloseOps /\ lastResult'[1] # 1000
            /\ reconnectAttempts < maxReconnectAttempts)
        => /\ reconnectAttempts' = reconnectAttempts + 1
           /\ reconnectTimers' = reconnectTimers + 1
           /\ Len(lastResult') = 3
           /\ LET d == lastResult'[3]
                  a == reconnectAttempts'
              IN  /\ d.num * Pow(2, a - 1)
                        = reconnectInterval * Pow(3, a - 1) * d.den
                  /\ a = 1 => d.num = reconnectInterval * d.den
           /\ pollingInterval' = pollingInterval
           /\ leakedPolls' = leakedPolls ]_vars

\* the second failure in a row has scheduled a retry after 7500 ms
C4_Witness ==
    /\ lastOp = "fail"
    /\ lastResult = <<1006, 1, [num |-> 15000, den |-> 2]>>
    /\ reconnectAttempts = 2
    /\ reconnectTimers = 1

\* C5: a close event with code 1000 schedules no reconnect timer, leaves the
\* counter alone and starts no heartbeat or polling timer.
C5_CleanCloseEndsLifecycle ==
    [][ (lastOp' = "close" /\ lastResult'[1] = 1000)
        => /\ reconnectTimers' = reconnectTimers
           /\ reconnectAttempts' = reconnectAttempts
           /\ ActiveHeartbeats' <= ActiveHeartbeats
           /\ ActivePolls' <= ActivePolls ]_vars

\* callbacks of the timers cleanup() is to cancel
TimerOps == {"reconnectTimer", "heartbeat", "poll", "flush"}

\* C6: cleanup() leaves no reconnect, heartbeat, flush or polling timer
\* pending, and after it no such timer fires or is started and no
\* connection attempt is made by the client.
C6_NothingAfterCleanup ==
    [][ /\ lastOp' = "cleanup"
            => /\ reconnectTimers' = 0
               /\ ActiveHeartbeats' = 0
               /\ ActivePolls' = 0
               /\ flushTimers' = 0
        /\ cleaned
            => /\ lastOp' \notin TimerOps
               /\ reconnectTimers' = reconnectTimers
               /\ ActiveHeartbeats' <= ActiveHeartbeats
               /\ ActivePolls' <= ActivePolls
               /\ flushTimers' <= flushTimers ]_vars

\* C7: connect() called while the current socket is open, by any caller,
\* returns a resolved promise, creates no socket, schedules no timer and
\* changes nothing of the client (the reconnect timer that called it is no
\* longer pending).
C7_ConnectIdempotent ==
    [][ (lastOp' = "connect" /\ websocket >= 1
            /\ sockets[websocket].state = "open")
        => /\ lastResult' = "resolved"
           /\ reconnectTimers' <= reconnectTimers
           /\ UNCHANGED <<sockets, websocket, isConnected, reconnectAttempts,
                          heartbeatTimer, leakedHeartbeats, pollingInterval,
                          leakedPolls, queueVars, pollsInFlight>> ]_vars

\* connect() has returned early on an open channel
C7_Witness ==
    /\ lastOp = "connect"
    /\ lastResult = "resolved"
    /\ websocket >= 1
    /\ sockets[websocket].state = "open"
    /\ isConnected

\* C8: once the timeout of a connect() call has run, the call's promise is
\* settled, and the socket it created is open(ed) or has been closed.
C8_TimeoutSettles ==
    \A s \in SockIds :
        sockets[s].timeout = "fired"
            => /\ sockets[s].promise # "pending"
               /\ sockets[s].state # "connecting"

\* C9: send() never throws, hands a frame to the socket only when the client
\* is connected and its current socket is open, and changes no client state.
C9_SendSafe ==
    [][ lastOp' = "send"
        => /\ lastResult' # "threw"
           /\ lastResult' = "sent"
                => /\ isConnected
                   /\ websocket >= 1
                   /\ sockets[websocket].state = "open"
           /\ lastResult' \in {"sent", "dropped"}
           /\ UNCHANGED clientVars ]_vars

\* send() has dropped a frame while isConnected is true and the current
\* socket is still connecting
C9_Witness ==
    /\ lastOp = "send"
    /\ lastResult = "dropped"
    /\ isConnected
    /\ websocket >= 1
    /\ sockets[websocket].state = "connecting"

\* C10: the K >= 1 functions enqueued in one throttle window are flushed by
\* exactly one flush, which invokes all K in enqueue order.
C10_OneFlushInvokesAll ==
    [][ lastOp' = "flush"
        => /\ flushTimers = 1
           /\ Len(updateQueue) >= 1
           /\ lastInvoked' = updateQueue ]_vars

\* C11: at most one flush timer is pending, and whenever the update queue is
\* not empty (between two handlers) exactly one flush timer is pending.
C11_OneFlushTimer ==
    /\ flushTimers <= 1
    /\ updateQueue # << >> => flushTimers = 1

\* C12: a flush invokes every buffered function in enqueue order and leaves
\* the queue empty and the timer handle released (so that no function is
\* invoked by a second flush), and the enqueue that follows a flush
\* schedules a new flush timer.
C12_FlushInvokesEachOnce ==
    [][ /\ lastOp' = "flush"
            => /\ lastInvoked' = updateQueue
               /\ updateQueue' = << >>
               /\ ~updateTimer'
        /\ (lastOp = "flush" /\ lastOp' = "queueUpdate")
            => /\ flushTimers' = flushTimers + 1
               /\ updateTimer' ]_vars

\* C13: the stored sequence never has more than 50 entries and is ordered
\* newest first; storeNotification puts the new notification at the head,
\* keeps the others in their order, and drops only the oldest one, only when
\* 50 were stored already (so of 51 notifications stored into an empty
\* store the first is absent and the other 50 remain).
C13_StoreCapped ==
    [][ /\ Len(notifications') <= NotificationCap
        /\ \A i \in 1..(Len(notifications') - 1) :
               notifications'[i].n > notifications'[i + 1].n
        /\ lastOp' = "storeNotification"
            => /\ notifications'[1].n = notified'
               /\ Len(notifications') =
                      IF Len(notifications) < NotificationCap
                      THEN Len(notifications) + 1 ELSE NotificationCap
               /\ \A i \in 2..Len(notifications') :
                      notifications'[i] = notifications[i - 1]
               /\ Len(notifications) = NotificationCap
                      => \A i \in 1..Len(notifications') :
                             notifications'[i].n
                                 # notifications[NotificationCap].n ]_vars

\* 51 notifications were stored into the empty store: the first is absent,
\* the 51st is at the head and the second is the last of the 50 kept
C13_Witness ==
    /\ lastOp = "storeNotification"
    /\ notified = NotificationCap + 1
    /\ Len(notifications) = NotificationCap
    /\ notifications[1].n = NotificationCap + 1
    /\ notifications[NotificationCap].n = 2

\* C14: in one emit(event, data) every callback registered after a callback
\* that throws is still invoked with the same data, and emit returns to its
\* caller without an exception.
C14_EmitIsolatesThrower ==
    [][ lastOp' = "emit"
        => LET e == lastResult'[1]
               d == lastResult'[2]
               cbs == listeners[e]
           IN  /\ lastResult'[3] = "returned"
               /\ \A i \in 1..Len(cbs) :
                      CallbackThrows(cbs[i])
                          => \A j \in (i + 1)..Len(cbs) :
                                 /\ j <= Len(delivered')
                                 /\ delivered'[j] = <<e, cbs[j], d>> ]_vars

\* emit has invoked callback a, registered after the callback that throws
C14_Witness ==
    /\ lastOp = "emit"
    /\ lastResult = <<"update", "d1", "returned">>
    /\ listeners["update"] = <<"bad", "a">>
    /\ delivered = << <<"update", "bad", "d1">>, <<"update", "a", "d1">> >>

\* C15: on(event, callback) appends the callback to the event's list even
\* when it is there already, and emit(event, data) invokes the callbacks of
\* that list, and no others, in order, once per registration.
C15_EmitInRegistrationOrder ==
    [][ /\ lastOp' = "on"
            => LET e == lastResult'[1]
                   cb == lastResult'[2]
               IN  listeners' =
                       [listeners EXCEPT ![e] = listeners[e] \o <<cb>>]
        /\ lastOp' = "emit"
            => LET e == lastResult'[1]
                   d == lastResult'[2]
               IN  /\ Len(delivered') = Len(listeners[e])
                   /\ \A i \in 1..Len(delivered') :
                          delivered'[i] = <<e, listeners[e][i], d>> ]_vars

\* callback a is registered twice for 'update' and b for 'metrics_update':
\* emit('update') has invoked a twice and b not at all
C15_Witness ==
    /\ lastOp = "emit"
    /\ listeners["update"] = <<"a", "a">>
    /\ listeners["metrics_update"] = <<"b">>
    /\ delivered = << <<"update", "a", "d1">>, <<"update", "a", "d1">> >>

\* C16: the handler of a well-formed agent_status_change frame invokes each
\* subscriber of agent_status_change once with the payload, records one
\* warning notification exactly when new_status is 'failed', one success
\* notification exactly when old_status is 'failed' and new_status is
\* 'idle', and records nothing for any other transition.
C16_AgentStatusDispatch ==
    [][ (lastOp' = "message" /\ lastResult'.type = "agent_status_change")
        => LET p == lastResult'.payload
               cbs == listeners["agent_status_change"]
               calls == SelectSeq(delivered',
                                  LAMBDA c : c[1] = "agent_status_change")
               recorded == notified' - notified
           IN  /\ Len(calls) = Len(cbs)
               /\ \A i \in 1..Len(cbs) :
                      calls[i] = <<"agent_status_change", cbs[i], p>>
               /\ recorded \in {0, 1}
               /\ Len(notifications') = Len(notifications) + recorded
               /\ SubSeq(notifications', recorded + 1, Len(notifications'))
                      = notifications
               /\ (recorded = 1 /\ notifications'[1].type = "warning")
                      <=> p.new_status = "failed"
               /\ (recorded = 1 /\ notifications'[1].type = "success")
                      <=> (p.old_status = "failed" /\ p.new_status = "idle")
               /\ recorded = 1
                      => notifications'[1].type \in {"warning", "success"}
       ]_vars

\* an agent has failed: the subscriber of agent_status_change got the
\* payload once and a warning notification is at the head of the store
C16_Witness ==
    /\ lastOp = "message"
    /\ lastResult = [type |-> "agent_status_change",
                     payload |-> [old_status |-> "busy",
                                  new_status |-> "failed"]]
    /\ listeners["agent_status_change"] = <<"a">>
    /\ Len(notifications) = 1
    /\ notifications[1].type = "warning"
    /\ \E i \in 1..Len(delivered) :
           delivered[i] = <<"agent_status_change", "a", lastResult.payload>>

\* C17: a successful poll returning the body P invokes every subscriber of
\* metrics_update with P, and the subscriber calls it makes, of every event,
\* are those the frame {type: metrics_update, payload: P} would make if it
\* arrived on the socket in the same state.
C17_PollLikePush ==
    [][ (lastOp' = "pollResponse" /\ lastResult'[1] = "ok")
        => LET P == lastResult'[2]
               cbs == listeners["metrics_update"]
               calls == SelectSeq(delivered',
                                  LAMBDA c : c[1] = "metrics_update")
           IN  /\ Len(calls) = Len(cbs)
               /\ \A i \in 1..Len(cbs) :
                      calls[i] = <<"metrics_update", cbs[i], P>>
               /\ delivered' = FrameLog(listeners,
                                        [type |-> "metrics_update",
                                         payload |-> P],
                                        notified + 1) ]_vars

\* C18: a polling request that fails (fetch rejects, the response is not
\* OK, or its body is not JSON) invokes no subscriber, queues no update,
\* and changes nothing of the connection state: the polling timers that
\* were active stay active.
C18_PollFailureHarmless ==
    [][ (lastOp' = "pollResponse" /\ lastResult'[1] # "ok")
        => /\ lastResult'[1] \in {"notOk", "badBody", "error"}
           /\ delivered' = << >>
           /\ ActivePolls' = ActivePolls
           /\ UNCHANGED <<connectionVars, queueVars, dispatchVars>> ]_vars

\* a polling request failed while metrics_update had a subscriber: nothing
\* was delivered and the polling timer is still active
C18_Witness ==
    /\ lastOp = "pollResponse"
    /\ lastResult = <<"error", "m1">>
    /\ listeners["metrics_update"] = <<"a">>
    /\ delivered = << >>
    /\ pollingInterval
    /\ ActivePolls = 1

\* C19: at most one heartbeat interval timer is active, and none is active
\* while the client is not connected.
C19_HeartbeatOnlyConnected ==
    /\ ActiveHeartbeats <= 1
    /\ ~isConnected => ActiveHeartbeats = 0

\* C20: the handler of a frame whose type is pong, or is not one of the five
\* recognized data types, invokes no subscriber callback of any event.
C20_PongAndUnknownUnpublished ==
    [][ (lastOp' = "message" /\ lastResult'.type \notin RecognizedTypes)
        => delivered' = << >> ]_vars

\* the handlers of a message event
MessageOps == {"message", "messageError"}

\* a frame that cannot be parsed, has a type the switch does not know, or
\* has no payload
ProtocolError(f) ==
    \/ ~Parses(f)
    \/ f.type \notin RecognizedTypes \cup {"pong"}
    \/ ~HasPayload(f)

\* C21: the handler of an unparseable frame, of a frame of an unrecognized
\* type or of a frame without payload returns normally and leaves
\* isConnected, the socket, reconnectAttempts, every timer and the subscriber
\* registry as they were.
C21_BadFrameChangesNothing ==
    [][ (lastOp' \in MessageOps /\ ProtocolError(lastResult'))
        => UNCHANGED <<connectionVars, updateTimer, flushTimers,
                       listeners>> ]_vars

\* C22: clearNotifications() leaves an empty store and a count of 0, and the
\* storeNotification(n) that follows it leaves exactly the entry of n in the
\* store, with a count of 1, whatever was stored before.
C22_ClearThenStore ==
    [][ /\ lastOp' = "clearNotifications"
           => notifications' = << >> /\ notificationCount' = 0
        /\ (lastOp = "clearNotifications" /\ lastOp' = "storeNotification")
           => /\ notifications' =
                     <<Stored(Notification(notified + 1, lastResult'))>>
              /\ notificationCount' = 1 ]_vars

\* the store was full, was cleared, and one notification was stored
C22_Witness ==
    /\ lastOp = "storeNotification"
    /\ notified > NotificationCap + 1
    /\ Len(notifications) = 1
    /\ notificationCount = 1

\* C23: reconnectAttempts is never negative and never exceeds
\* maxReconnectAttempts.
C23_AttemptsBounded ==
    reconnectAttempts \in 0 .. maxReconnectAttempts

\* two sockets of the client closed one after another: the close of the
\* second found the counter at the maximum, left it there and scheduled
\* nothing, while the retry scheduled by the close of the first is pending
C23_Witness ==
    /\ lastOp = "fail"
    /\ lastResult = <<1006, maxReconnectAttempts>>
    /\ reconnectAttempts = maxReconnectAttempts
    /\ reconnectTimers = 1

\* the sockets created by the client that are connecting or open
Established == {s \in SockIds : sockets[s].state \in {"connecting", "open"}}

\* C24: at most one socket created by the client is connecting or open.
C24_OneSocket == Cardinality(Established) <= 1

\* the step called startPollingFallback()
PollingStarted ==
    pollingInterval' /\ (~pollingInterval \/ leakedPolls' > leakedPolls)

\* C25: at most one polling interval timer is active; every call of
\* startPollingFallback leaves exactly one active, and stopPollingFallback
\* and cleanup leave none.
C25_OnePollingTimer ==
    [][ /\ ActivePolls' <= 1
        /\ PollingStarted => ActivePolls' = 1
        /\ lastOp' = "cleanup" => ActivePolls' = 0 ]_vars

\* C26: a newly constructed client has no active polling timer, and a
\* polling timer is started only by the handler of a close event.
C26_PollingOnlyAsHandOff ==
    /\ ActivePolls = 0
    /\ [][PollingStarted => lastOp' \in CloseOps]_vars

\* C27: the handler of a pong frame sets lastHeartbeat to the time of its
\* receipt, and the heartbeat callback, which sends the ping, leaves
\* lastHeartbeat as it was.
C27_HeartbeatOnPong ==
    [][ /\ (lastOp' = "message" /\ lastResult'.type = "pong")
           => lastHeartbeat' = clock
        /\ lastOp' = "heartbeat" => lastHeartbeat' = lastHeartbeat ]_vars

\* C28: at most one reconnect timer is pending.
C28_OneReconnectTimer == reconnectTimers <= 1

\* the socket whose connect() call armed the timeout that fires next
TimeoutOwner ==
    CHOOSE s \in SockIds :
        /\ sockets[s].timeout = "armed"
        /\ \A r \in 1..(s - 1) : sockets[r].timeout = "fired"

\* where socket r is in sockets' after the timeout of socket s has fired:
\* only s itself can have been dropped by that step
AfterTimeout(r, s) ==
    IF r > s /\ Len(sockets') < Len(sockets) THEN r - 1 ELSE r

\* C29: the timeout of a connect() call changes the state of no socket other
\* than the one that call created.
C29_TimeoutClosesOwnSocket ==
    [][ (lastOp' = "timeout" /\ sockets' # sockets)
        => \A r \in SockIds \ {TimeoutOwner} :
               sockets'[AfterTimeout(r, TimeoutOwner)].state
                   = sockets[r].state ]_vars

\* the socket this.websocket refers to is open
CurrentOpen == websocket >= 1 /\ sockets[websocket].state = "open"

\* C30: isConnected is true exactly when the socket the client refers to is
\* open (so isConnected implies that the reference is not null).
C30_ConnectedIffCurrentOpen == isConnected <=> CurrentOpen

\* the handlers through which a connection attempt fails
FailureOps == {"fail", "timeout"}

\* C31: the 'online' and 'visibilitychange' handlers call connect() exactly
\* when isConnected is false; the promise of every connection attempt has a
\* rejection handler, and the failure of an attempt stops no polling timer.
C31_RepromoteWhenDisconnected ==
    [][ /\ (NetworkOnline \/ PageVisible)
           => /\ ~isConnected => lastOp' = "connect"
              /\ isConnected => /\ lastOp' # "connect"
                                /\ UNCHANGED <<sockets, websocket>>
        /\ \A s \in 1..Len(sockets') : sockets'[s].caught
        /\ lastOp' \in FailureOps => ActivePolls' >= ActivePolls ]_vars

\* the attempts are exhausted and the client polls; a trigger has called
\* connect() and the socket it created is connecting
C31_Witness ==
    /\ lastOp = "connect"
    /\ lastResult = "pending"
    /\ ~isConnected
    /\ reconnectAttempts = maxReconnectAttempts
    /\ reconnectTimers = 0
    /\ ActivePolls > 0
    /\ websocket >= 1
    /\ sockets[websocket].state = "connecting"
    /\ sockets[websocket].caught

\* C32: when a buffered function throws during a flush, the functions that
\* were enqueued after it are invoked by that flush all the same.
C32_ThrowSkipsNothing ==
    [][ lastOp' = "flush"
        => \A i \in 1..Len(updateQueue) :
               Throws(updateQueue[i])
                   => /\ Len(lastInvoked') = Len(updateQueue)
                      /\ \A j \in (i + 1)..Len(updateQueue) :
                             lastInvoked'[j] = updateQueue[j] ]_vars

\* C33: a function handed to queueUpdate from inside a buffered function
\* while a flush is in progress is still in the buffer after that flush, with
\* a flush timer pending to invoke it.
C33_EnqueuedDuringFlushKept ==
    [][ (lastOp' = "flush" /\ Pushed(lastInvoked') # << >>)
        => /\ updateQueue' = Pushed(lastInvoked')
           /\ updateTimer'
           /\ flushTimers' >= 1 ]_vars

\* the positions of cbs that hold a callback other than cb
Others(cbs, cb) == {i \in 1..Len(cbs) : cbs[i] # cb}

\* the number of positions of the set is that are at most i
Rank(is, i) == Cardinality({j \in is : j <= i})

\* C34: off(event, cb) removes every registration of cb for the event, keeps
\* the other callbacks of the event in their order and the registrations of
\* the other events as they are, and changes nothing when cb is not
\* registered for the event; emit invokes only callbacks that are registered
\* when it begins.
C34_OffRemovesAll ==
    [][ /\ lastOp' = "off"
           => LET e == lastResult'[1]
                  cb == lastResult'[2]
                  kept == Others(listeners[e], cb)
              IN  /\ Len(listeners'[e]) = Cardinality(kept)
                  /\ \A i \in kept :
                         listeners'[e][Rank(kept, i)] = listeners[e][i]
                  /\ \A o \in Events \ {e} : listeners'[o] = listeners[o]
                  /\ Cardinality(kept) = Len(listeners[e])
                         => listeners' = listeners
        /\ lastOp' = "emit"
           => \A i \in 1..Len(delivered') :
                  \E j \in 1..Len(listeners[lastResult'[1]]) :
                      listeners[lastResult'[1]][j] = delivered'[i][2] ]_vars

\* off('update', a) has run: b keeps its place for 'update' and the two
\* registrations of a for 'metrics_update' are still there
C34_Witness ==
    /\ lastOp = "off"
    /\ lastResult = <<"update", "a">>
    /\ listeners["update"] = <<"b">>
    /\ listeners["metrics_update"] = <<"a", "a">>

\* C35: no two stored notifications have the same id.
C35_UniqueIds ==
    \A i, j \in 1..Len(notifications) :
        i # j => notifications[i].id # notifications[j].id

\* the severities a notification may have
Severities == {"info", "success", "warning", "error"}

\* C36: the handler of a system_alert frame records exactly one notification,
\* of severity error for the levels error and critical, warning for the
\* level warning and info for any other level, and then invokes each
\* subscriber of system_alert once with the payload; every recorded
\* notification has one of the four severities.
C36_SystemAlertSeverity ==
    [][ (lastOp' = "message" /\ lastResult'.type = "system_alert")
        => LET p == lastResult'.payload
               cbs == listeners["system_alert"]
               calls == SelectSeq(delivered',
                                  LAMBDA c : c[1] = "system_alert")
               severity == CASE p.level \in {"error", "critical"} -> "error"
                             [] p.level = "warning" -> "warning"
                             [] OTHER -> "info"
           IN  /\ notified' = notified + 1
               /\ Len(notifications') = Len(notifications) + 1
               /\ notifications'[1].n = notified'
               /\ notifications'[1].type = severity
               /\ \A i \in 1..Len(notifications) :
                      notifications'[i + 1] = notifications[i]
               /\ \A i \in 1..Len(notifications') :
                      notifications'[i].type \in Severities
               /\ Len(calls) = Len(cbs)
               /\ \A i \in 1..Len(cbs) :
                      calls[i] = <<"system_alert", cbs[i], p>>
               /\ \A i, j \in 1..Len(delivered') :
                      (/\ delivered'[i][1] = "notification"
                       /\ delivered'[j][1] = "system_alert") => i < j ]_vars

\* a critical alert has been recorded as an error and published: first the
\* subscriber of notification was invoked, then the one of system_alert
C36_Witness ==
    /\ lastOp = "message"
    /\ lastResult = [type |-> "system_alert",
                     payload |-> [level |-> "critical"]]
    /\ notifications # << >>
    /\ notifications[1].type = "error"
    /\ Len(delivered) = 2
    /\ delivered[1][1] = "notification"
    /\ delivered[2] = <<"system_alert", "a", [level |-> "critical"]>>

\* the positions of the log that hold an entry of the kind
Entries(kind) == {i \in 1..Len(fetchLog) : fetchLog[i][1] = kind}

\* C37: a call of fetchWithRetry issues at most maxRetries + 1 requests, all
\* for the same URL; it retries only after a response that is not OK or a
\* network error, having waited retryDelay * 2^k before retry k (k from 0);
\* it returns a response that is not OK, and rethrows the network error,
\* only when the last retry is spent.
C37_FetchRetriesBounded ==
    LET last == fetchLog[Len(fetchLog)]
    IN  /\ Cardinality(Entries("request")) <= maxRetries + 1
        /\ retries <= maxRetries
        /\ \A i \in Entries("request") :
               /\ fetchLog[i][2] = FetchUrl
               /\ i > 1 => fetchLog[i - 1][1] = "delay"
        /\ \A i \in Entries("delay") :
               /\ fetchLog[i][2] =
                      retryDelay * Pow(2, Rank(Entries("delay"), i) - 1)
               /\ fetchLog[i - 1][1] = "settled"
               /\ fetchLog[i - 1][2] \in {"notOk", "error"}
        /\ fetchPhase = "returned"
               => /\ last[1] = "settled"
                  /\ last[2] \in {"ok", "notOk"}
                  /\ last[2] = "notOk"
                         => Cardinality(Entries("request")) = maxRetries + 1
        /\ fetchPhase = "threw"
               => /\ last[1] = "settled"
                  /\ last[2] = "error"
                  /\ Cardinality(Entries("request")) = maxRetries + 1

\* four requests failed: after the delays 1000, 2000 and 4000 the call has
\* rethrown the network error of the last one
C37_Witness ==
    /\ fetchPhase = "threw"
    /\ Cardinality(Entries("request")) = 4
    /\ Cardinality(Entries("delay")) = 3
    /\ fetchLog[3][1] = "delay" /\ fetchLog[3][2] = 1000
    /\ fetchLog[6][1] = "delay" /\ fetchLog[6][2] = 2000
    /\ fetchLog[9][1] = "delay" /\ fetchLog[9][2] = 4000

====
